---- MODULE Spec2Model ----
(***************************************************************************)
(* Model of the deterministic tractography lesson                          *)
(* (code/deterministic_tractography/deterministic_tractography.ipynb) and  *)
(* of the harness that replays it (the "Test Notebooks" workflow step).    *)
(*                                                                         *)
(* Two specifications share the variables:                                 *)
(*   Spec        the statements of the pipeline cells (notebook lines 48   *)
(*               to 248) executed in order in a kernel whose inputs        *)
(*               (dwi_img, gtab, affine) are bound;                        *)
(*   SpecReplay  the top-to-bottom replay of the code cells exactly as     *)
(*               they are written, in a fresh kernel.                      *)
(*                                                                         *)
(* The numerical engine (dipy, nibabel, numpy's C code) is not part of the *)
(* repository.  A library call is modelled only by what the notebook's own *)
(* code fixes about it: which names it reads, which name it binds, and     *)
(* that it returns a fresh object.  Its result is left opaque, and where   *)
(* the notebook does not determine a property of the result (does the      *)
(* tractogram share the streamlines it is given, which space does a loaded *)
(* tractogram come back in) the model chooses nondeterministically.        *)
(***************************************************************************)
EXTENDS Integers, Sequences, FiniteSets, TLC

\* ------------------------------------------------------------------ bounds
\* Number of voxels of the (flattened) volume.
NVox == 3

Vox == 1..NVox

\* --------------------------------------------------------------- float64
\* A float is a record: a finite value in tenths (val = 2 is 0.2), NaN, or a
\* signed infinity.
Fin(n) == [cls |-> "fin", val |-> n]

NaN == [cls |-> "nan", val |-> 0]

PosInf == [cls |-> "inf", val |-> 1]

NegInf == [cls |-> "inf", val |-> -1]

\* Finite sample values, in tenths: 0, 0.1, 0.2, 0.3, 1.0.
FinSamples == {0, 1, 2, 3, 10}

Floats == {Fin(n) : n \in FinSamples} \cup {NaN, PosInf, NegInf}

FloatArrays == [Vox -> Floats]

\* A plausible slip: testing "not finite" where the code tests "is NaN".
IsNotFinite(x) == x.cls # "fin"

\* np.isnan(x)
IsNan(x) == x.cls = "nan"

\* x >= t for a finite t given in tenths; every comparison with NaN is False.
Ge(x, t) ==
    CASE x.cls = "fin" -> x.val >= t
      [] x.cls = "inf" -> x.val > 0
      [] OTHER -> FALSE

\* x < t for a finite t given in tenths; every comparison with NaN is False.
Lt(x, t) ==
    CASE x.cls = "fin" -> x.val < t
      [] x.cls = "inf" -> x.val < 0
      [] OTHER -> FALSE

\* The FA threshold .2 of the stopping criterion and of the seed mask, in tenths.
FaThreshold == 2

\* A plausible slip: a[a > t] = v, a strict comparison.
AssignWhereGt(a, t, v) ==
    [i \in DOMAIN a |-> IF Ge(a[i], t) /\ a[i] # Fin(t) THEN v ELSE a[i]]

\* a[a >= t] = v  (boolean-mask assignment: the mask is computed from a, then
\* the selected elements are overwritten).
AssignWhereGe(a, t, v) == [i \in DOMAIN a |-> IF Ge(a[i], t) THEN v ELSE a[i]]

\* a[a < t] = v
AssignWhereLt(a, t, v) == [i \in DOMAIN a |-> IF Lt(a[i], t) THEN v ELSE a[i]]

\* fa_img[np.isnan(fa_img)] = 0
Sanitize(a) == [i \in DOMAIN a |-> IF IsNan(a[i]) THEN Fin(0) ELSE a[i]]

\* ------------------------------------------------- the kernel of Spec
VARIABLES
    pc,          \* the next pipeline statement, named by its notebook line
    env,         \* the kernel namespace: name -> object id, or "unbound"
    heap,        \* the float arrays: object id -> [Vox -> Floats]
    alloc,       \* the array objects that exist
    fa_fit,      \* history: the FA map as dti_fit.fa returned it
    criterion,   \* the stopping criterion: the array it reads and its threshold
    linesSpace,  \* the streamline collections: object id -> coordinate space
    sftLines,    \* the tractograms: object id -> the streamlines it holds
    sftSpace,    \* the tractograms: object id -> declared space
    trkFile,     \* tractogram_EuDX.trk: "absent" or "written"
    seedVox      \* the voxels seeds were generated in

pipeVars == <<pc, env, heap, alloc, fa_fit, criterion, linesSpace, sftLines,
              sftSpace, trkFile, seedVox>>

\* The kernel of SpecReplay.
VARIABLES
    python,    \* the interpreter of this run of the matrix
    onError,   \* the harness's policy after a cell raised
    rcell,     \* the cell being replayed; NCells + 1 when the run is over
    rstmt,     \* 0: the cell is not compiled yet; i: its statement i is next
    bound,     \* the names bound in the replay's kernel
    outcome,   \* per cell: "pending", "ok" or the exception it raised
    rfile      \* tractogram_EuDX.trk in the replay: "absent" or "written"

replayVars == <<python, onError, rcell, rstmt, bound, outcome, rfile>>

\* The rendering sessions of SpecScene.
VARIABLES
    tract,     \* the notebook's rendering cell: position, kernel facts, scene, snapshot
    csd        \* the CSD episode's scene statements: position, actors, scene, snapshots

sceneVars == <<tract, csd>>

vars == <<pc, env, heap, alloc, fa_fit, criterion, linesSpace, sftLines,
          sftSpace, trkFile, seedVox, python, onError, rcell, rstmt, bound, outcome, rfile,
          tract, csd>>

\* The names the pipeline cells bind or read.
Names == {"dwi_img", "gtab", "affine", "dwi_data", "dwi_mask", "dti_model",
          "dti_fit", "fa_img", "evecs_img", "sphere", "peak_indices",
          "stopping_criterion", "seed_mask", "seeds", "streamlines_generator",
          "streamlines", "sft"}

\* The array objects: the FA map of the fit, and the copy made for the seed mask.
ArrIds == {"fa", "fa_copy"}

\* The streamline collections: traced, held by the built tractogram when it
\* does not share the traced one, and loaded from the file.
LineIds == {"traced", "held", "loaded"}

SftIds == {"built", "reloaded"}

Spaces == {"rasmm", "voxmm", "vox"}

ZeroArray == [i \in Vox |-> Fin(0)]

\* A plausible slip: seed_mask = fa_img, an alias in place of a copy.
NdarrayAlias(src) == src

\* a.copy(): the id of the new array object the copy lives in.
NdarrayCopy(src) == "fa_copy"

Bind(name, obj) == env' = [env EXCEPT ![name] = obj]

Bound(names) == \A n \in names : env[n] # "unbound"

\* The state of a kernel in which the first cell's names are bound.
PipeInit ==
    /\ pc = "L48"
    /\ env = [n \in Names |->
                IF n \in {"dwi_img", "gtab", "affine"} THEN n ELSE "unbound"]
    /\ heap = [o \in ArrIds |-> ZeroArray]
    /\ alloc = {}
    /\ fa_fit = ZeroArray
    /\ criterion = [metric |-> "none", thr |-> 0]
    /\ linesSpace = [l \in LineIds |-> "none"]
    /\ sftLines = [t \in SftIds |-> "none"]
    /\ sftSpace = [t \in SftIds |-> "none"]
    /\ trkFile = "absent"
    /\ seedVox = {}

\* dwi_data = dwi_img.get_data()
GetData ==
    /\ pc = "L48" /\ Bound({"dwi_img"})
    /\ Bind("dwi_data", "raw_signal")
    /\ pc' = "L49"
    /\ UNCHANGED <<heap, alloc, fa_fit, criterion, linesSpace, sftLines, sftSpace, trkFile, seedVox>>
    /\ UNCHANGED replayVars
    /\ UNCHANGED sceneVars

\* dwi_data, dwi_mask = median_otsu(dwi_data, vol_idx=[0], numpass=1)
MedianOtsu ==
    /\ pc = "L49" /\ Bound({"dwi_data"})
    /\ env' = [env EXCEPT !["dwi_data"] = "masked_signal", !["dwi_mask"] = "mask"]
    /\ pc' = "L51"
    /\ UNCHANGED <<heap, alloc, fa_fit, criterion, linesSpace, sftLines, sftSpace, trkFile, seedVox>>
    /\ UNCHANGED replayVars
    /\ UNCHANGED sceneVars

\* dti_model = dti.TensorModel(gtab)
TensorModel ==
    /\ pc = "L51" /\ Bound({"gtab"})
    /\ Bind("dti_model", "model")
    /\ pc' = "L52"
    /\ UNCHANGED <<heap, alloc, fa_fit, criterion, linesSpace, sftLines, sftSpace, trkFile, seedVox>>
    /\ UNCHANGED replayVars
    /\ UNCHANGED sceneVars

\* dti_fit = dti_model.fit(dwi_data, mask=dwi_mask)
Fit ==
    /\ pc = "L52" /\ Bound({"dti_model", "dwi_data", "dwi_mask"})
    /\ Bind("dti_fit", "fit")
    /\ pc' = "L68"
    /\ UNCHANGED <<heap, alloc, fa_fit, criterion, linesSpace, sftLines, sftSpace, trkFile, seedVox>>
    /\ UNCHANGED replayVars
    /\ UNCHANGED sceneVars

\* fa_img = dti_fit.fa : the fit's FA map, any float array.
ExtractFA ==
    /\ pc = "L68" /\ Bound({"dti_fit"})
    /\ \E a \in FloatArrays :
           /\ heap' = [heap EXCEPT !["fa"] = a]
           /\ fa_fit' = a
    /\ alloc' = alloc \cup {"fa"}
    /\ Bind("fa_img", "fa")
    /\ pc' = "L69"
    /\ UNCHANGED <<criterion, linesSpace, sftLines, sftSpace, trkFile, seedVox>>
    /\ UNCHANGED replayVars
    /\ UNCHANGED sceneVars

\* evecs_img = dti_fit.evecs
ExtractEvecs ==
    /\ pc = "L69" /\ Bound({"dti_fit"})
    /\ Bind("evecs_img", "evecs")
    /\ pc' = "L87"
    /\ UNCHANGED <<heap, alloc, fa_fit, criterion, linesSpace, sftLines, sftSpace, trkFile, seedVox>>
    /\ UNCHANGED replayVars
    /\ UNCHANGED sceneVars

\* fa_img[np.isnan(fa_img)] = 0 : in place, on the object fa_img names.
SanitizeFA ==
    /\ pc = "L87" /\ Bound({"fa_img"})
    /\ heap' = [heap EXCEPT ![env["fa_img"]] = Sanitize(@)]
    /\ pc' = "L105"
    /\ UNCHANGED <<env, alloc, fa_fit, criterion, linesSpace, sftLines, sftSpace, trkFile, seedVox>>
    /\ UNCHANGED replayVars
    /\ UNCHANGED sceneVars

\* sphere = get_sphere('symmetric362')
GetSphere ==
    /\ pc = "L105"
    /\ Bind("sphere", "sphere362")
    /\ pc' = "L125"
    /\ UNCHANGED <<heap, alloc, fa_fit, criterion, linesSpace, sftLines, sftSpace, trkFile, seedVox>>
    /\ UNCHANGED replayVars
    /\ UNCHANGED sceneVars

\* peak_indices = peaks_from_model(model=dti_model, data=dwi_data, sphere=sphere, ...)
PeaksFromModel ==
    /\ pc = "L125" /\ Bound({"dti_model", "dwi_data", "sphere", "dwi_mask"})
    /\ Bind("peak_indices", "peaks")
    /\ pc' = "L143"
    /\ UNCHANGED <<heap, alloc, fa_fit, criterion, linesSpace, sftLines, sftSpace, trkFile, seedVox>>
    /\ UNCHANGED replayVars
    /\ UNCHANGED sceneVars

\* stopping_criterion = ThresholdStoppingCriterion(fa_img, .2) : it keeps the
\* array it is given and the threshold.
BuildCriterion ==
    /\ pc = "L143" /\ Bound({"fa_img"})
    /\ criterion' = [metric |-> env["fa_img"], thr |-> FaThreshold]
    /\ Bind("stopping_criterion", "criterion")
    /\ pc' = "L161"
    /\ UNCHANGED <<heap, alloc, fa_fit, linesSpace, sftLines, sftSpace, trkFile, seedVox>>
    /\ UNCHANGED replayVars
    /\ UNCHANGED sceneVars

\* seed_mask = fa_img.copy()
CopySeedMask ==
    /\ pc = "L161" /\ Bound({"fa_img"})
    /\ LET new == NdarrayCopy(env["fa_img"]) IN
           /\ heap' = [heap EXCEPT ![new] = heap[env["fa_img"]]]
           /\ alloc' = alloc \cup {new}
           /\ Bind("seed_mask", new)
    /\ pc' = "L162"
    /\ UNCHANGED <<fa_fit, criterion, linesSpace, sftLines, sftSpace, trkFile, seedVox>>
    /\ UNCHANGED replayVars
    /\ UNCHANGED sceneVars

\* seed_mask[seed_mask>=0.2] = 1
ThresholdHigh ==
    /\ pc = "L162" /\ Bound({"seed_mask"})
    /\ heap' = [heap EXCEPT ![env["seed_mask"]] = AssignWhereGe(@, FaThreshold, Fin(10))]
    /\ pc' = "L163"
    /\ UNCHANGED <<env, alloc, fa_fit, criterion, linesSpace, sftLines, sftSpace, trkFile, seedVox>>
    /\ UNCHANGED replayVars
    /\ UNCHANGED sceneVars

\* seed_mask[seed_mask<0.2] = 0
ThresholdLow ==
    /\ pc = "L163" /\ Bound({"seed_mask"})
    /\ heap' = [heap EXCEPT ![env["seed_mask"]] = AssignWhereLt(@, FaThreshold, Fin(0))]
    /\ pc' = "L165"
    /\ UNCHANGED <<env, alloc, fa_fit, criterion, linesSpace, sftLines, sftSpace, trkFile, seedVox>>
    /\ UNCHANGED replayVars
    /\ UNCHANGED sceneVars

\* The voxels a mask selects: its non-zero elements.
NonZero(a) == {i \in DOMAIN a : a[i] # Fin(0)}

\* seeds = utils.seeds_from_mask(seed_mask, affine=affine, density=1) : the
\* seeds are placed in the voxels the mask selects; how many per voxel and
\* where inside the voxel is the library's.
SeedsFromMask ==
    /\ pc = "L165" /\ Bound({"seed_mask", "affine"})
    /\ seedVox' = NonZero(heap[env["seed_mask"]])
    /\ Bind("seeds", "seed_points")
    /\ pc' = "L187"
    /\ UNCHANGED <<heap, alloc, fa_fit, criterion, linesSpace, sftLines, sftSpace, trkFile>>
    /\ UNCHANGED replayVars
    /\ UNCHANGED sceneVars

\* streamlines_generator = LocalTracking(peak_indices, stopping_criterion, seeds,
\*                                       affine=affine, step_size=.5)
LocalTracking ==
    /\ pc = "L187" /\ Bound({"peak_indices", "stopping_criterion", "seeds", "affine"})
    /\ Bind("streamlines_generator", "generator")
    /\ pc' = "L190"
    /\ UNCHANGED <<heap, alloc, fa_fit, criterion, linesSpace, sftLines, sftSpace, trkFile, seedVox>>
    /\ UNCHANGED replayVars
    /\ UNCHANGED sceneVars

\* streamlines = Streamlines(streamlines_generator) : points in the space of
\* the affine given to the tracker (physical, RAS mm).
CollectStreamlines ==
    /\ pc = "L190" /\ Bound({"streamlines_generator"})
    /\ linesSpace' = [linesSpace EXCEPT !["traced"] = "rasmm"]
    /\ Bind("streamlines", "traced")
    /\ pc' = "L209"
    /\ UNCHANGED <<heap, alloc, fa_fit, criterion, sftLines, sftSpace, trkFile, seedVox>>
    /\ UNCHANGED replayVars
    /\ UNCHANGED sceneVars

\* sft = StatefulTractogram(streamlines, dwi_img, Space.RASMM) : whether the
\* tractogram holds the collection it is given or a copy of it is the
\* library's choice.
BuildTractogram ==
    /\ pc = "L209" /\ Bound({"streamlines", "dwi_img"})
    /\ \/ /\ sftLines' = [sftLines EXCEPT !["built"] = env["streamlines"]]
          /\ UNCHANGED linesSpace
       \/ /\ sftLines' = [sftLines EXCEPT !["built"] = "held"]
          /\ linesSpace' = [linesSpace EXCEPT !["held"] = linesSpace[env["streamlines"]]]
    /\ sftSpace' = [sftSpace EXCEPT !["built"] = "rasmm"]
    /\ Bind("sft", "built")
    /\ pc' = "L210"
    /\ UNCHANGED <<heap, alloc, fa_fit, criterion, trkFile, seedVox>>
    /\ UNCHANGED replayVars
    /\ UNCHANGED sceneVars

\* save_trk(sft, "tractogram_EuDX.trk")
SaveTrk ==
    /\ pc = "L210" /\ Bound({"sft"})
    /\ trkFile' = "written"
    /\ pc' = "L238"
    /\ UNCHANGED <<env, heap, alloc, fa_fit, criterion, linesSpace, sftLines, sftSpace, seedVox>>
    /\ UNCHANGED replayVars
    /\ UNCHANGED sceneVars

\* sft = load_trk('tractogram_EuDX.trk', 'same') : a new tractogram with its
\* own streamlines; the space it comes back in is the library's choice.
LoadTrk ==
    /\ pc = "L238" /\ trkFile = "written"
    /\ \E sp \in Spaces :
           /\ sftSpace' = [sftSpace EXCEPT !["reloaded"] = sp]
           /\ linesSpace' = [linesSpace EXCEPT !["loaded"] = sp]
    /\ sftLines' = [sftLines EXCEPT !["reloaded"] = "loaded"]
    /\ Bind("sft", "reloaded")
    /\ pc' = "L247"
    /\ UNCHANGED <<heap, alloc, fa_fit, criterion, trkFile, seedVox>>
    /\ UNCHANGED replayVars
    /\ UNCHANGED sceneVars

\* sft.to_vox() : in place, on the tractogram sft names and the streamlines
\* it holds.
ToVox ==
    /\ pc = "L247" /\ Bound({"sft"})
    /\ sftSpace' = [sftSpace EXCEPT ![env["sft"]] = "vox"]
    /\ linesSpace' = [linesSpace EXCEPT ![sftLines[env["sft"]]] = "vox"]
    /\ pc' = "L248"
    /\ UNCHANGED <<env, heap, alloc, fa_fit, criterion, sftLines, trkFile, seedVox>>
    /\ UNCHANGED replayVars
    /\ UNCHANGED sceneVars

\* streamlines = sft.streamlines
RebindStreamlines ==
    /\ pc = "L248" /\ Bound({"sft"})
    /\ Bind("streamlines", sftLines[env["sft"]])
    /\ pc' = "done"
    /\ UNCHANGED <<heap, alloc, fa_fit, criterion, linesSpace, sftLines, sftSpace, trkFile, seedVox>>
    /\ UNCHANGED replayVars
    /\ UNCHANGED sceneVars

Next ==
    \/ GetData \/ MedianOtsu \/ TensorModel \/ Fit \/ ExtractFA \/ ExtractEvecs
    \/ SanitizeFA \/ GetSphere \/ PeaksFromModel \/ BuildCriterion
    \/ CopySeedMask \/ ThresholdHigh \/ ThresholdLow \/ SeedsFromMask
    \/ LocalTracking \/ CollectStreamlines \/ BuildTractogram \/ SaveTrk
    \/ LoadTrk \/ ToVox \/ RebindStreamlines

\* ------------------------------------------- the replay of the notebook
\* A statement of a code cell: its first line in the .ipynb file, the names
\* it binds (imports, assignment targets), the names it reads, whether it
\* parses, and what it does to tractogram_EuDX.trk.
Stmt(l, d, u) == [line |-> l, defs |-> d, uses |-> u, parses |-> TRUE, io |-> "none"]

Malformed(l, d, u) == [line |-> l, defs |-> d, uses |-> u, parses |-> FALSE, io |-> "none"]

FileStmt(l, d, u, f) == [line |-> l, defs |-> d, uses |-> u, parses |-> TRUE, io |-> f]

\* The data loading cell, lines 19-37.
CellLoad ==
    << Stmt(19, {"BIDSLayout"}, {}),
       Stmt(20, {"read_bvals_bvecs"}, {}),
       Stmt(21, {"gradient_table"}, {}),
       Stmt(22, {"img"}, {}),
       Stmt(23, {"nib"}, {}),
       Stmt(25, {"layout"}, {"BIDSLayout"}),
       Stmt(27, {"subj"}, {}),
       Stmt(29, {"dwi"}, {"layout", "subj"}),
       Malformed(30, {"bval"}, {"layout", "subj"}),
       Malformed(31, {"bvec"}, {"layout", "subj"}),
       Stmt(33, {"dwi_img"}, {"img", "dwi"}),
       Stmt(34, {"affine"}, {"dwi_img"}),
       Stmt(36, {"gt_bvals", "gt_bvecs"}, {"read_bvals_bvecs", "bval", "bvec"}),
       Stmt(37, {"gtab"}, {"gradient_table", "gt_bvals", "gt_bvecs"}) >>

\* Lines 45-52.
CellFit ==
    << Stmt(45, {"dti"}, {}),
       Stmt(46, {"median_otsu"}, {}),
       Stmt(48, {"dwi_data"}, {"dwi_img"}),
       Stmt(49, {"dwi_data", "dwi_mask"}, {"median_otsu", "dwi_data"}),
       Stmt(51, {"dti_model"}, {"dti", "gtab"}),
       Stmt(52, {"dti_fit"}, {"dti_model", "dwi_data", "dwi_mask"}) >>

\* Lines 68-69.
CellMaps ==
    << Stmt(68, {"fa_img"}, {"dti_fit"}),
       Stmt(69, {"evecs_img"}, {"dti_fit"}) >>

\* Lines 85-87.
CellSanitize ==
    << Stmt(85, {"np"}, {}),
       Stmt(87, {}, {"fa_img", "np"}) >>

\* Lines 103-105.
CellSphere ==
    << Stmt(103, {"get_sphere"}, {}),
       Stmt(105, {"sphere"}, {"get_sphere"}) >>

\* Lines 123-125.
CellPeaks ==
    << Stmt(123, {"peaks_from_model"}, {}),
       Stmt(125, {"peak_indices"},
            {"peaks_from_model", "dti_model", "dwi_data", "sphere", "dwi_mask"}) >>

\* Lines 141-143.
CellCriterion ==
    << Stmt(141, {"ThresholdStoppingCriterion"}, {}),
       Stmt(143, {"stopping_criterion"}, {"ThresholdStoppingCriterion", "fa_img"}) >>

\* Lines 159-165.
CellSeeds ==
    << Stmt(159, {"utils"}, {}),
       Stmt(161, {"seed_mask"}, {"fa_img"}),
       Stmt(162, {}, {"seed_mask"}),
       Stmt(163, {}, {"seed_mask"}),
       Stmt(165, {"seeds"}, {"utils", "seed_mask", "affine"}) >>

\* Lines 183-190.
CellTrack ==
    << Stmt(183, {"LocalTracking"}, {}),
       Stmt(184, {"Streamlines"}, {}),
       Stmt(187, {"streamlines_generator"},
            {"LocalTracking", "peak_indices", "stopping_criterion", "seeds", "affine"}),
       Stmt(190, {"streamlines"}, {"Streamlines", "streamlines_generator"}) >>

\* Lines 206-210.
CellSave ==
    << Stmt(206, {"Space", "StatefulTractogram"}, {}),
       Stmt(207, {"save_trk"}, {}),
       Stmt(209, {"sft"}, {"StatefulTractogram", "streamlines", "dwi_img", "Space"}),
       FileStmt(210, {}, {"save_trk", "sft"}, "writes") >>

\* Lines 227-228.
CellImportLoad ==
    << Stmt(227, {"load_tractogram"}, {}),
       Stmt(228, {"load_trk"}, {}) >>

\* Lines 237-238.
CellLoadTrk ==
    << FileStmt(238, {"sft"}, {"load_trk"}, "reads") >>

\* Lines 247-248.
CellToVox ==
    << Stmt(247, {}, {"sft"}),
       Stmt(248, {"streamlines"}, {"sft"}) >>

\* The rendering cell, lines 256-283.
CellRender ==
    << Stmt(256, {"window", "actor", "colormap"}, {}),
       Stmt(260, {"streamlines_actor"}, {"actor", "streamlines"}),
       Stmt(263, {"scene"}, {"window"}),
       Stmt(266, {"out_dir"}, {"subj"}),
       Stmt(268, {}, {"os", "out_dir"}),
       Stmt(271, {"det_tractogram_eudx_scene_arr"}, {"window", "scene", "os", "out_dir"}),
       Stmt(276, {"plt"}, {}),
       Stmt(277, {}, {}),
       Stmt(280, {"fig", "axes"}, {"plt"}),
       Stmt(281, {}, {"axes", "det_tractogram_eudx_scene_arr"}),
       Stmt(282, {}, {"axes"}),
       Stmt(283, {}, {"plt"}) >>

\* The last, empty cell, line 291.
CellEmpty == << >>

\* The code cells of the notebook, top to bottom.
Notebook ==
    << CellLoad, CellFit, CellMaps, CellSanitize, CellSphere, CellPeaks,
       CellCriterion, CellSeeds, CellTrack, CellSave, CellImportLoad,
       CellLoadTrk, CellToVox, CellRender, CellEmpty >>

NCells == Len(Notebook)

\* The matrix of the workflow: python-version: [3.6, 3.7, 3.8].
PythonVersions == {"3.6", "3.7", "3.8"}

\* What the harness does after a cell raised: go on with the next cell (each
\* cell is a test of its own) or end the run.  The workflow step does not say.
ErrorPolicies == {"continue", "stop"}

\* compile(cell): a cell with one statement that does not parse is rejected
\* whole, before any of it runs.
SyntaxValid(cell) == \A i \in 1..Len(cell) : cell[i].parses

\* Every statement of the notebook, as <<cell, index in the cell>>.
Positions == UNION { { <<c, i>> : i \in 1..Len(Notebook[c]) } : c \in 1..NCells }

\* The names bound by the text above statement i of cell c: by the cells
\* before c and by the statements of c before i.
TextuallyBoundBefore(c, i) ==
    UNION { Notebook[p[1]][p[2]].defs :
              p \in { q \in Positions : q[1] < c \/ (q[1] = c /\ q[2] < i) } }

\* Every name cell c reads is imported or assigned by c or an earlier cell.
NamesResolved(c) ==
    \A i \in 1..Len(Notebook[c]) :
        Notebook[c][i].uses \subseteq TextuallyBoundBefore(c, i)

\* A fresh kernel in a fresh checkout.
ReplayInit ==
    /\ python \in PythonVersions
    /\ onError \in ErrorPolicies
    /\ rcell = 1
    /\ rstmt = 0
    /\ bound = {}
    /\ outcome = [c \in 1..NCells |-> "pending"]
    /\ rfile = "absent"

\* The cell after a raising one, by the harness's policy.
AfterRaise == IF onError = "stop" THEN NCells + 1 ELSE rcell + 1

Raise(exc) ==
    /\ outcome' = [outcome EXCEPT ![rcell] = exc]
    /\ rcell' = AfterRaise
    /\ rstmt' = 0

\* The kernel compiles the cell; a cell that parses starts to run.
CompileCell ==
    /\ rcell <= NCells /\ rstmt = 0
    /\ SyntaxValid(Notebook[rcell])
    /\ rstmt' = 1
    /\ UNCHANGED <<python, onError, rcell, bound, outcome, rfile>>
    /\ UNCHANGED pipeVars
    /\ UNCHANGED sceneVars

\* A cell that does not parse raises SyntaxError and binds nothing.
RaiseSyntaxError ==
    /\ rcell <= NCells /\ rstmt = 0
    /\ ~SyntaxValid(Notebook[rcell])
    /\ Raise("SyntaxError")
    /\ UNCHANGED <<python, onError, bound, rfile>>
    /\ UNCHANGED pipeVars
    /\ UNCHANGED sceneVars

\* The next statement runs: the names it reads are bound, the file it reads
\* exists; it binds its targets.
ExecStatement ==
    /\ rcell <= NCells /\ rstmt >= 1 /\ rstmt <= Len(Notebook[rcell])
    /\ LET st == Notebook[rcell][rstmt] IN
           /\ st.uses \subseteq bound
           /\ st.io = "reads" => rfile = "written"
           /\ bound' = bound \cup st.defs
           /\ rfile' = IF st.io = "writes" THEN "written" ELSE rfile
    /\ rstmt' = rstmt + 1
    /\ UNCHANGED <<python, onError, rcell, outcome>>
    /\ UNCHANGED pipeVars
    /\ UNCHANGED sceneVars

\* The next statement reads a name that is not bound: NameError ends the cell.
RaiseNameError ==
    /\ rcell <= NCells /\ rstmt >= 1 /\ rstmt <= Len(Notebook[rcell])
    /\ ~(Notebook[rcell][rstmt].uses \subseteq bound)
    /\ Raise("NameError")
    /\ UNCHANGED <<python, onError, bound, rfile>>
    /\ UNCHANGED pipeVars
    /\ UNCHANGED sceneVars

\* The next statement loads a file that was never written.
RaiseFileNotFound ==
    /\ rcell <= NCells /\ rstmt >= 1 /\ rstmt <= Len(Notebook[rcell])
    /\ LET st == Notebook[rcell][rstmt] IN
           /\ st.uses \subseteq bound
           /\ st.io = "reads" /\ rfile # "written"
    /\ Raise("FileNotFoundError")
    /\ UNCHANGED <<python, onError, bound, rfile>>
    /\ UNCHANGED pipeVars
    /\ UNCHANGED sceneVars

\* The cell ran to its end.
FinishCell ==
    /\ rcell <= NCells /\ rstmt = Len(Notebook[rcell]) + 1
    /\ outcome' = [outcome EXCEPT ![rcell] = "ok"]
    /\ rcell' = rcell + 1
    /\ rstmt' = 0
    /\ UNCHANGED <<python, onError, bound, rfile>>
    /\ UNCHANGED pipeVars
    /\ UNCHANGED sceneVars

NextReplay ==
    \/ CompileCell \/ RaiseSyntaxError \/ ExecStatement \/ RaiseNameError
    \/ RaiseFileNotFound \/ FinishCell

\* --------------------------------------------------- the 3D scenes
\* window.Scene(): a new scene holds no actor.
NewScene == {}

\* scene.add(a)
SceneAdd(sc, a) == sc \cup {a}

\* scene.rm(a)
SceneRm(sc, a) == sc \ {a}

\* window.clear(scene)
SceneClear(sc) == {}

\* window.snapshot(scene, fname=...): the image shows the actors the scene
\* holds when it is taken.
Snapshot(sc) == [taken |-> TRUE, shows |-> sc]

NoSnapshot == [taken |-> FALSE, shows |-> {}]

\* The image files the CSD episode writes.
CsdImages == {"frf.png", "csd_odfs.png", "csd_peaks.png", "csd_peaks_fodfs.png"}

\* The rendering cell (notebook lines 256-283) starts in a kernel where
\* streamlines and subj are bound.  The notebook never imports os; a session
\* has it only if it was imported by hand.  out_dir may or may not exist.
\* The CSD episode starts at its line 163, after its own import os (line 51)
\* and makedirs (lines 112-113).
SceneInit ==
    /\ tract \in [pc : {"L260"}, os : BOOLEAN, dir : BOOLEAN, made : {{}},
                  scene : {{}}, snap : {NoSnapshot}]
    /\ csd = [pc |-> "L163", made |-> {}, scene |-> {},
              snaps |-> [f \in CsdImages |-> NoSnapshot]]

SceneParked ==
    /\ tract = [pc |-> "parked", os |-> FALSE, dir |-> FALSE, made |-> {},
                scene |-> {}, snap |-> NoSnapshot]
    /\ csd = [pc |-> "parked", made |-> {}, scene |-> {},
              snaps |-> [f \in CsdImages |-> NoSnapshot]]

TractFrame == UNCHANGED <<csd, pipeVars, replayVars>>

\* streamlines_actor = actor.line(streamlines)
TractActorLine ==
    /\ tract.pc = "L260"
    /\ tract' = [tract EXCEPT !.pc = "L263", !.made = @ \cup {"streamlines_actor"}]
    /\ TractFrame

\* scene = window.Scene()
TractNewScene ==
    /\ tract.pc = "L263"
    /\ tract' = [tract EXCEPT !.pc = "L266", !.scene = NewScene]
    /\ TractFrame

\* out_dir = '.../tractography/sub-%s/ses-01/dwi/' % subj
TractOutDir ==
    /\ tract.pc = "L266"
    /\ tract' = [tract EXCEPT !.pc = "L268"]
    /\ TractFrame

\* if not os.path.exists(out_dir): os.makedirs(out_dir)
TractMakedirs ==
    /\ tract.pc = "L268" /\ tract.os
    /\ tract' = [tract EXCEPT !.pc = "L271", !.dir = TRUE]
    /\ TractFrame

\* The same statement in a kernel where os is not bound: NameError ends the cell.
TractRaiseNameError ==
    /\ tract.pc = "L268" /\ ~tract.os
    /\ tract' = [tract EXCEPT !.pc = "raised"]
    /\ TractFrame

\* det_tractogram_eudx_scene_arr = window.snapshot(scene, fname=..., ...)
TractSnapshot ==
    /\ tract.pc = "L271" /\ tract.os /\ tract.dir
    /\ tract' = [tract EXCEPT !.pc = "L276", !.snap = Snapshot(tract.scene)]
    /\ TractFrame

\* One statement of the CSD episode: from line `from` to line `to`, with the
\* actors created, the scene and the snapshots after it.
CsdStep(from, to, made, sc, snaps) ==
    /\ csd.pc = from
    /\ csd' = [pc |-> to, made |-> made, scene |-> sc, snaps |-> snaps]
    /\ UNCHANGED <<tract, pipeVars, replayVars>>

CsdShot(f) == [csd.snaps EXCEPT ![f] = Snapshot(csd.scene)]

\* scene = window.Scene()                                       (line 163)
CsdNewScene == CsdStep("L163", "L170", csd.made, NewScene, csd.snaps)

\* response_actor = actor.odf_slicer(response_odf, ...)         (lines 170-171)
CsdResponseActor ==
    CsdStep("L170", "L172", csd.made \cup {"response_actor"}, csd.scene, csd.snaps)

\* scene.add(response_actor)                                    (line 172)
CsdAddResponse ==
    /\ "response_actor" \in csd.made
    /\ CsdStep("L172", "L173", csd.made, SceneAdd(csd.scene, "response_actor"), csd.snaps)

\* response_scene_arr = window.snapshot(scene, 'frf.png')       (lines 173-175)
CsdSnapshotFrf == CsdStep("L173", "L192", csd.made, csd.scene, CsdShot("frf.png"))

\* scene.rm(response_actor)                                     (line 192)
CsdRmResponse ==
    CsdStep("L192", "L254", csd.made, SceneRm(csd.scene, "response_actor"), csd.snaps)

\* fodf_spheres = actor.odf_slicer(csd_odf, ...)                (lines 254-255)
CsdFodfSpheres ==
    CsdStep("L254", "L257", csd.made \cup {"fodf_spheres"}, csd.scene, csd.snaps)

\* scene.add(fodf_spheres)                                      (line 257)
CsdAddFodf ==
    /\ "fodf_spheres" \in csd.made
    /\ CsdStep("L257", "L258", csd.made, SceneAdd(csd.scene, "fodf_spheres"), csd.snaps)

\* fodf_scene_arr = window.snapshot(scene, 'csd_odfs.png')      (lines 258-260)
CsdSnapshotOdfs == CsdStep("L258", "L286", csd.made, csd.scene, CsdShot("csd_odfs.png"))

\* window.clear(scene)                                          (line 286)
CsdClear == CsdStep("L286", "L287", csd.made, SceneClear(csd.scene), csd.snaps)

\* fodf_peaks = actor.peak_slicer(csd_peaks.peak_dirs, ...)     (line 287)
CsdFodfPeaks ==
    CsdStep("L287", "L288", csd.made \cup {"fodf_peaks"}, csd.scene, csd.snaps)

\* scene.add(fodf_peaks)                                        (line 288)
CsdAddPeaks ==
    /\ "fodf_peaks" \in csd.made
    /\ CsdStep("L288", "L289", csd.made, SceneAdd(csd.scene, "fodf_peaks"), csd.snaps)

\* peaks_scene_arr = window.snapshot(scene, 'csd_peaks.png')    (lines 289-291)
CsdSnapshotPeaks == CsdStep("L289", "L308", csd.made, csd.scene, CsdShot("csd_peaks.png"))

\* scene.add(fodf_spheres)                                      (line 308)
CsdAddFodfAgain ==
    /\ "fodf_spheres" \in csd.made
    /\ CsdStep("L308", "L309", csd.made, SceneAdd(csd.scene, "fodf_spheres"), csd.snaps)

\* csd_peaks_fodfs_arr = window.snapshot(scene, 'csd_peaks_fodfs.png')  (lines 309-311)
CsdSnapshotBoth ==
    CsdStep("L309", "L313", csd.made, csd.scene, CsdShot("csd_peaks_fodfs.png"))

NextScene ==
    \/ TractActorLine \/ TractNewScene \/ TractOutDir \/ TractMakedirs
    \/ TractRaiseNameError \/ TractSnapshot
    \/ CsdNewScene \/ CsdResponseActor \/ CsdAddResponse \/ CsdSnapshotFrf
    \/ CsdRmResponse \/ CsdFodfSpheres \/ CsdAddFodf \/ CsdSnapshotOdfs
    \/ CsdClear \/ CsdFodfPeaks \/ CsdAddPeaks \/ CsdSnapshotPeaks
    \/ CsdAddFodfAgain \/ CsdSnapshotBoth

\* ------------------------------------------------------ specifications
\* While the pipeline is modelled the replay stands still, and conversely.
ReplayParked ==
    /\ python = "3.7" /\ onError = "stop" /\ rcell = NCells + 1 /\ rstmt = 0
    /\ bound = {} /\ outcome = [c \in 1..NCells |-> "pending"] /\ rfile = "absent"

Init == PipeInit /\ ReplayParked /\ SceneParked

Spec == Init /\ [][Next]_vars

InitReplay == ReplayInit /\ PipeInit /\ SceneParked

SpecReplay == InitReplay /\ [][NextReplay]_vars

InitScene == SceneInit /\ PipeInit /\ ReplayParked

SpecScene == InitScene /\ [][NextScene]_vars

\* ------------------------------------------------------------- claims
\* The statements up to and including the sanitization: the stage that owns
\* the FA map.
ScalarMapStage == {"L48", "L49", "L51", "L52", "L68", "L69", "L87"}

\* The state right after fa_img[np.isnan(fa_img)] = 0.
JustSanitized == pc = "L105"

\* C3, as stated: after the sanitization every voxel whose FA was non-finite
\* (NaN or an infinity) holds 0, every voxel whose FA was finite holds its
\* previous value, and sanitizing again changes nothing.
C3_NonFiniteZeroed ==
    JustSanitized =>
        /\ \A v \in Vox : fa_fit[v].cls # "fin" => heap["fa"][v] = Fin(0)
        /\ \A v \in Vox : fa_fit[v].cls = "fin" => heap["fa"][v] = fa_fit[v]
        /\ Sanitize(heap["fa"]) = heap["fa"]

\* C3, amended: after the sanitization every voxel whose FA was NaN holds 0,
\* every other voxel (finite or infinite) holds its previous value, and
\* sanitizing again changes nothing.
C3_NanZeroedOthersKept ==
    JustSanitized =>
        /\ \A v \in Vox : fa_fit[v].cls = "nan" => heap["fa"][v] = Fin(0)
        /\ \A v \in Vox : fa_fit[v].cls # "nan" => heap["fa"][v] = fa_fit[v]
        /\ Sanitize(heap["fa"]) = heap["fa"]

\* C3, witness: the sanitization has run on a map that held a NaN, an
\* infinity and a finite non-zero value.
C3_Witness ==
    /\ JustSanitized
    /\ \E v \in Vox : fa_fit[v].cls = "nan"
    /\ \E v \in Vox : fa_fit[v].cls = "inf"
    /\ \E v \in Vox : fa_fit[v].cls = "fin" /\ fa_fit[v].val # 0

\* C8, as stated: replaying the notebook top to bottom, no cell raises.
C8_ReplayNeverRaises ==
    \A c \in 1..NCells : outcome[c] \in {"pending", "ok"}

\* C9: once the scalar-map stage has sanitized the FA map, no later statement
\* (building the criterion, copying and thresholding the seed mask, seeding,
\* tracing, building, saving and reloading the tractogram, to_vox) changes
\* it, and the criterion keeps reading that same array; once the tracer has
\* produced the streamlines, no later statement changes them.
C9_ArtifactsImmutable ==
    [][ /\ pc \notin ScalarMapStage => heap'["fa"] = heap["fa"]
        /\ criterion.metric # "none" => criterion' = criterion /\ criterion.metric = "fa"
        /\ linesSpace["traced"] # "none" => linesSpace'["traced"] = linesSpace["traced"]
      ]_vars

\* C9, witness: the pipeline has run to its end; thresholding has changed the
\* seed mask (it differs from the FA map), and to_vox has moved the reloaded
\* streamlines to voxel space while the built tractogram shares the traced
\* streamlines.
C9_Witness ==
    /\ pc = "done"
    /\ env["seed_mask"] # "unbound" /\ heap[env["seed_mask"]] # heap["fa"]
    /\ sftLines["built"] = "traced"
    /\ linesSpace["loaded"] = "vox" /\ linesSpace["traced"] = "rasmm"
    /\ \E v \in Vox : fa_fit[v].cls = "nan"

\* The seed mask has been thresholded and the seeds generated from it.
Seeded == pc \notin ScalarMapStage \cup {"L105", "L125", "L143", "L161", "L162", "L163", "L165"}

\* C12: after the two in-place assignments on the copy of the sanitized FA
\* map, the seed mask holds only 0 and 1 and holds 1 exactly at the voxels
\* where the array the stopping criterion reads is >= its threshold; hence
\* every voxel seeds were generated in has FA >= 0.2 and none has FA < 0.2.
C12_SeedMaskAgreesWithCriterion ==
    Seeded =>
        LET mask == heap[env["seed_mask"]]
            fa == heap[criterion.metric]
        IN  /\ \A v \in Vox : mask[v] \in {Fin(0), Fin(10)}
            /\ \A v \in Vox : mask[v] = Fin(10) <=> Ge(fa[v], criterion.thr)
            /\ \A v \in seedVox : Ge(fa[v], criterion.thr) /\ ~Lt(fa[v], criterion.thr)
            /\ \A v \in Vox : Lt(fa[v], criterion.thr) => v \notin seedVox

\* C12, witness: seeds were generated from a map that had a NaN (sanitized to
\* 0), a value of exactly 0.2 and a value below it; some voxel is seeded and
\* some is not.
C12_Witness ==
    /\ Seeded
    /\ \E v \in Vox : fa_fit[v] = NaN
    /\ \E v \in Vox : fa_fit[v] = Fin(FaThreshold) /\ v \in seedVox
    /\ \E v \in Vox : fa_fit[v] = Fin(1) /\ v \notin seedVox

\* C13, as stated: every snapshot shows the actors it is meant to show: the
\* tractography snapshot the streamlines actor; in the CSD episode frf.png
\* only the response actor, csd_odfs.png only the fODF actor, csd_peaks.png
\* only the peaks actor, csd_peaks_fodfs.png the peaks and the fODF actors.
C13_SnapshotsShowTheirActors ==
    /\ tract.snap.taken => "streamlines_actor" \in tract.snap.shows
    /\ csd.snaps["frf.png"].taken => csd.snaps["frf.png"].shows = {"response_actor"}
    /\ csd.snaps["csd_odfs.png"].taken => csd.snaps["csd_odfs.png"].shows = {"fodf_spheres"}
    /\ csd.snaps["csd_peaks.png"].taken => csd.snaps["csd_peaks.png"].shows = {"fodf_peaks"}
    /\ csd.snaps["csd_peaks_fodfs.png"].taken =>
           csd.snaps["csd_peaks_fodfs.png"].shows = {"fodf_peaks", "fodf_spheres"}

====
